---- MODULE Spec2Model ----
(***************************************************************************)
(* StandaloneDriver.Run (tools/cmd/integration-test/standalone.go): build  *)
(* NilAway, run the binary on the test project, decode its JSON output and *)
(* fold the diagnostics into a map from Position to message.               *)
(*                                                                         *)
(* Strings that the code takes apart (posn) are sequences of one-character *)
(* strings; strings it only carries (messages, process errors) are atoms.  *)
(* A Go map is a function; ranging over it picks the keys in any order.    *)
(***************************************************************************)
EXTENDS Integers, Sequences, FiniteSets, TLC

\* ------------------------------------------------------------------ bounds
\* Most package entries in one tool output.
MaxPkgs == 2
\* Most diagnostics in one tool output, all packages together.
MaxDiags == 3

\* ------------------------------------------------------ the analyzer's key
AnalyzerKey == "nilaway"
OtherKey == "otheranalyzer"

\* --------------------------------------------------------- sample strings
XGo == <<"x", ".", "g", "o">>
YGo == <<"y", ".", "g", "o">>
Colon == ":"
PosnA == XGo \o <<":", "1", "0", ":", "5">>
PosnA2 == XGo \o <<":", "1", "0", ":", "9">>
PosnB == YGo \o <<":", "1", "0", ":", "5">>
PosnZero == XGo \o <<":", "0", ":", "1">>
PosnNeg == XGo \o <<":", "-", "3", ":", "1">>
PosnAbc == XGo \o <<":", "a", "b", "c", ":", "3">>
PosnTwo == XGo \o <<":", "1", "0">>
PosnFour == XGo \o <<":", "1", "0", ":", "5", ":", "1">>

\* type diagnostic struct { Posn string; Message string }
Diag(posn, message) == [Posn |-> posn, Message |-> message]
Diags ==
  { Diag(PosnA, "m1"), Diag(PosnA2, "m2"), Diag(PosnB, "m1"),
    Diag(PosnZero, "m2"), Diag(PosnNeg, "m1"), Diag(PosnAbc, "m2"),
    Diag(PosnTwo, "m1"), Diag(PosnFour, "m2") }

\* ------------------------------------------------- the external processes
NoError == "nil"
Text(t) == [kind |-> "text", text |-> t, doc |-> <<>>]
Json(doc) == [kind |-> "json", text |-> "", doc |-> doc]
JsonWrongShape == [kind |-> "jsonWrongShape", text |-> "[1]", doc |-> <<>>]
NoOut == [kind |-> "none", text |-> "", doc |-> <<>>]

\* One package entry of the tool's JSON object: analyzer name -> diagnostics.
KeyEntry(diags) == [a \in {AnalyzerKey} |-> diags]
MissingEntry == [a \in {OtherKey} |-> <<>>]
\* The JSON object whose i-th package entry lacks the key when miss[i] and
\* otherwise holds the next lens[i] diagnostics of flat.
RECURSIVE Offset(_, _)
Offset(lens, i) == IF i = 1 THEN 0 ELSE Offset(lens, i - 1) + lens[i - 1]
Total(lens) == Offset(lens, Len(lens) + 1)
MkDoc(lens, miss, flat) ==
  [i \in 1..Len(lens) |->
     IF miss[i] THEN MissingEntry
     ELSE KeyEntry(SubSeq(flat, Offset(lens, i) + 1, Offset(lens, i) + lens[i]))]

\* What `make build` can do: succeed, or fail with its output.
BuildOutcomes ==
  { [err |-> NoError, out |-> Text("go build -o bin/nilaway")],
    [err |-> "exit status 2", out |-> Text("make: *** [build] Error 1")] }

\* What bin/nilaway can do when it fails: exit 1 with some output (JSON or
\* not), or not start at all.
FailedOutcomes ==
  {[err |-> "exit status 1", out |-> o] :
     o \in {Text("panic: runtime error"), Json(<<>>),
            Json(<<KeyEntry(<<Diag(PosnA, "m1")>>)>>)}}
  \cup {[err |-> "fork/exec: no such file or directory", out |-> Text("")]}
\* Output of a run that exits 0 and is not the expected JSON object.
Undecodable == {Text("panic: runtime error"), JsonWrongShape}
NoOutcome == [err |-> NoError, out |-> NoOut]

\* ------------------------------------------------------------- the errors
NoDiag == Diag(<<>>, "")
NoEntry == <<>>
Failure(kind, wrapped, out, entry, diag, num, msgs) ==
  [kind |-> kind, wrapped |-> wrapped, out |-> out, entry |-> entry,
   diag |-> diag, num |-> num, msgs |-> msgs]
NilErr == Failure("nil", NoError, NoOut, NoEntry, NoDiag, <<>>, <<>>)

\* fmt.Errorf("build NilAway: %w: %q", err, string(out))
BuildFailure(err, out) ==
  Failure("BuildFailure", err, out, NoEntry, NoDiag, <<>>, <<>>)
\* fmt.Errorf("run nilaway: %w\n%s", err, string(out))
InvocationFailure(err, out) ==
  Failure("InvocationFailure", err, out, NoEntry, NoDiag, <<>>, <<>>)
\* A decode failure that drops the error it should wrap.
DecodeFailureDropsCause(err) ==
  Failure("DecodeFailure", NoError, NoOut, NoEntry, NoDiag, <<>>, <<>>)
\* fmt.Errorf("decode nilaway output: %w", err)
DecodeFailure(err) ==
  Failure("DecodeFailure", err, NoOut, NoEntry, NoDiag, <<>>, <<>>)
\* fmt.Errorf("expect \"nilaway\" key in result, got %+v", m)
SchemaFailure(m) ==
  Failure("SchemaFailure", NoError, NoOut, m, NoDiag, <<>>, <<>>)
\* fmt.Errorf("expect 3 parts in position string, got %+v", d)
PartsFailure(d) ==
  Failure("MalformedPositionFailure", NoError, NoOut, NoEntry, d, <<>>, <<>>)
\* fmt.Errorf("convert line number: %w", err), err a *strconv.NumError
AtoiFailure(numErr) ==
  Failure("MalformedPositionFailure", numErr.err, NoOut, NoEntry, NoDiag,
          numErr.num, <<>>)
\* fmt.Errorf("multiple diagnostics on the same line not supported, ...")
DuplicateFailure(current, got) ==
  Failure("DuplicatePositionFailure", NoError, NoOut, NoEntry, NoDiag, <<>>,
          <<current, got>>)

\* ---------------------------------------------------------- pure helpers
\* strings.Split(s, ":"): the segments between the colons, in order.
RECURSIVE SplitFrom(_, _, _)
SplitFrom(s, i, cur) ==
  IF i > Len(s) THEN <<cur>>
  ELSE IF s[i] = Colon THEN <<cur>> \o SplitFrom(s, i + 1, <<>>)
  ELSE SplitFrom(s, i + 1, Append(cur, s[i]))
Split(s) == SplitFrom(s, 1, <<>>)

DigitValue ==
  [c \in {"0", "1", "2", "3", "4", "5", "6", "7", "8", "9"} |->
     CASE c = "0" -> 0 [] c = "1" -> 1 [] c = "2" -> 2 [] c = "3" -> 3
       [] c = "4" -> 4 [] c = "5" -> 5 [] c = "6" -> 6 [] c = "7" -> 7
       [] c = "8" -> 8 [] c = "9" -> 9]
IsDigit(c) == c \in DOMAIN DigitValue
RECURSIVE DigitsValue(_, _, _)
DigitsValue(s, i, n) ==
  IF i > Len(s) THEN n ELSE DigitsValue(s, i + 1, n * 10 + DigitValue[s[i]])

\* An Atoi that reads the digits and loses the sign.
AtoiUnsigned(s) ==
  LET signed == Len(s) > 0 /\ s[1] \in {"-", "+"}
      digits == IF signed THEN Tail(s) ELSE s
      bad == [n |-> 0, err |-> "invalid syntax", num |-> s]
  IN IF Len(digits) < 1 THEN bad
     ELSE IF \E i \in 1..Len(digits) : ~IsDigit(digits[i]) THEN bad
     ELSE [n |-> DigitsValue(digits, 1, 0), err |-> NoError, num |-> s]

\* strconv.Atoi on a string short enough for its fast path (under 19 bytes):
\* an optional sign, then one or more decimal digits.
Atoi(s) ==
  LET signed == Len(s) > 0 /\ s[1] \in {"-", "+"}
      digits == IF signed THEN Tail(s) ELSE s
      bad == [n |-> 0, err |-> "invalid syntax", num |-> s]
  IN IF Len(digits) < 1 THEN bad
     ELSE IF \E i \in 1..Len(digits) : ~IsDigit(digits[i]) THEN bad
     ELSE [n |-> IF s[1] = "-" THEN 0 - DigitsValue(digits, 1, 0)
                 ELSE DigitsValue(digits, 1, 0),
           err |-> NoError, num |-> s]

\* Position{Filename: parts[0], Line: line}
Position(filename, line) == [Filename |-> filename, Line |-> line]

\* A lookup that never finds the key, so that a later insert overwrites.
HasKeyNever(collected, pos) == FALSE
\* current, ok := collected[pos]
HasKey(collected, pos) == pos \in DOMAIN collected
\* An insert that keeps only the newest entry.
InsertForgets(collected, pos, message) == [p \in {pos} |-> message]
\* collected[pos] = d.Message
Insert(collected, pos, message) ==
  [p \in DOMAIN collected \cup {pos} |->
     IF p = pos THEN message ELSE collected[p]]

\* A lookup that takes a missing key for an empty list of findings.
LookupDefaultsEmpty(m) ==
  IF AnalyzerKey \in DOMAIN m THEN [ok |-> TRUE, diagnostics |-> m[AnalyzerKey]]
  ELSE [ok |-> TRUE, diagnostics |-> <<>>]
\* diagnostics, ok := m["nilaway"]
Lookup(m) ==
  IF AnalyzerKey \in DOMAIN m THEN [ok |-> TRUE, diagnostics |-> m[AnalyzerKey]]
  ELSE [ok |-> FALSE, diagnostics |-> <<>>]

\* json.Unmarshal(out, &result) into map[string]map[string][]diagnostic
Unmarshal(out) ==
  CASE out.kind = "json" -> [err |-> NoError, result |-> out.doc]
    [] out.kind = "jsonWrongShape" ->
         [err |-> "json: cannot unmarshal array into Go value", result |-> <<>>]
    [] OTHER -> [err |-> "invalid character looking for beginning of value",
                 result |-> <<>>]

\* A check that lets a position of more than three segments through.
WrongPartsFewer(parts) == Len(parts) < 3
\* len(parts) != 3
WrongParts(parts) == Len(parts) # 3

\* The body of `for _, d := range diagnostics`, for one diagnostic.
Step(collected, d) ==
  LET parts == Split(d.Posn)
  IN IF WrongParts(parts) THEN [collected |-> collected, err |-> PartsFailure(d)]
     ELSE LET a == Atoi(parts[2])
          IN IF a.err # NoError
             THEN [collected |-> collected, err |-> AtoiFailure(a)]
             ELSE LET pos == Position(parts[1], a.n)
                  IN IF HasKey(collected, pos)
                     THEN [collected |-> collected,
                           err |-> DuplicateFailure(collected[pos], d.Message)]
                     ELSE [collected |-> Insert(collected, pos, d.Message),
                           err |-> NilErr]

\* `for _, d := range diagnostics`: in slice order, stopping at the first error.
RECURSIVE Range(_, _, _)
Range(collected, diagnostics, i) ==
  IF i > Len(diagnostics) THEN [collected |-> collected, err |-> NilErr]
  ELSE LET r == Step(collected, diagnostics[i])
       IN IF r.err # NilErr THEN r ELSE Range(r.collected, diagnostics, i + 1)

\* The values a return statement hands back.
NilMap == [nil |-> TRUE, m |-> <<>>]
\* A failing return that hands back the map built so far.
ReturnPartial(collected, err) == [m |-> [nil |-> FALSE, m |-> collected], err |-> err]
ReturnFailure(collected, err) == [m |-> NilMap, err |-> err]
ReturnCollected(collected) == [m |-> [nil |-> FALSE, m |-> collected], err |-> NilErr]
NoReturn == [m |-> NilMap, err |-> NilErr]

\* A build step that goes on to run the binary whatever make did.
AfterBuildIgnoresError(b, collected) == [pc |-> "built", ret |-> NoReturn]
\* if out, err := ...CombinedOutput(); err != nil { return nil, ... }
AfterBuild(b, collected) ==
  IF b.err # NoError
  THEN [pc |-> "done", ret |-> ReturnFailure(collected, BuildFailure(b.err, b.out))]
  ELSE [pc |-> "built", ret |-> NoReturn]

\* A run step that decodes the output whatever the exit status.
AfterExecIgnoresError(t, collected) == [pc |-> "ran", ret |-> NoReturn]
\* out, err := cmd.CombinedOutput(); if err != nil { return nil, ... }
AfterExec(t, collected) ==
  IF t.err # NoError
  THEN [pc |-> "done", ret |-> ReturnFailure(collected, InvocationFailure(t.err, t.out))]
  ELSE [pc |-> "ran", ret |-> NoReturn]

\* ------------------------------------------------------------------ state
VARIABLES
  pc,         \* where Run is: "start", "built", "ran", "range", "done"
  call,       \* which invocation of Run this is (1 or 2)
  build,      \* what `make build` did (the same in every invocation)
  tool,       \* what bin/nilaway did (the same in every invocation)
  spawned,    \* the processes this invocation has run, in order
  result,     \* the decoded output: package -> analyzer name -> diagnostics
  todo,       \* the keys of result the range has not visited yet
  collected,  \* the map under construction
  ret,        \* what this invocation returned
  prev        \* what the invocation before it returned

vars == <<pc, call, build, tool, spawned, result, todo, collected, ret, prev>>

Init ==
  /\ pc = "start"
  /\ call = 1
  /\ build = NoOutcome
  /\ tool = NoOutcome
  /\ spawned = <<>>
  /\ result = <<>>
  /\ todo = {}
  /\ collected = <<>>
  /\ ret = NoReturn
  /\ prev = NoReturn

\* exec.Command("make", "build").CombinedOutput(), whose outcome is b.
Make(b) ==
  /\ build' = b
  /\ spawned' = Append(spawned, "build")
  /\ pc' = AfterBuild(b, collected).pc
  /\ ret' = AfterBuild(b, collected).ret
  /\ UNCHANGED <<call, tool, result, todo, collected, prev>>

Build ==
  /\ pc = "start"
  /\ call = 1
  /\ \E b \in BuildOutcomes : Make(b)

\* cmd.CombinedOutput() of bin/nilaway -json ... ./..., whose outcome is t.
Exec(t) ==
  /\ tool' = t
  /\ spawned' = Append(spawned, "tool")
  /\ pc' = AfterExec(t, collected).pc
  /\ ret' = AfterExec(t, collected).ret
  /\ UNCHANGED <<call, build, result, todo, collected, prev>>

ExecTool ==
  /\ pc = "built"
  /\ call = 1
  /\ \/ \E t \in FailedOutcomes : Exec(t)
     \/ \E o \in Undecodable : Exec([err |-> NoError, out |-> o])
     \/ \E n \in 0..MaxPkgs :
          \E lens \in [1..n -> 0..MaxDiags], miss \in [1..n -> BOOLEAN] :
            /\ Total(lens) <= MaxDiags
            /\ \A i \in 1..n : miss[i] => lens[i] = 0
            /\ \E flat \in [1..Total(lens) -> Diags] :
                 Exec([err |-> NoError, out |-> Json(MkDoc(lens, miss, flat))])

\* json.Unmarshal, then collected := make(map[Position]string)
Decode ==
  /\ pc = "ran"
  /\ LET u == Unmarshal(tool.out)
     IN IF u.err # NoError
        THEN /\ ret' = ReturnFailure(collected, DecodeFailure(u.err))
             /\ pc' = "done"
             /\ UNCHANGED <<result, todo>>
        ELSE /\ result' = u.result
             /\ todo' = DOMAIN u.result
             /\ pc' = "range"
             /\ ret' = ret
  /\ collected' = <<>>
  /\ UNCHANGED <<call, build, tool, spawned, prev>>

\* One iteration of `for _, m := range result`, on whichever key comes next.
RangePkg ==
  /\ pc = "range"
  /\ \E p \in todo :
       LET l == Lookup(result[p])
           r == Range(collected, l.diagnostics, 1)
       IN IF ~l.ok
          THEN /\ ret' = ReturnFailure(collected, SchemaFailure(result[p]))
               /\ pc' = "done"
               /\ UNCHANGED <<todo, collected>>
          ELSE IF r.err # NilErr
          THEN /\ ret' = ReturnFailure(r.collected, r.err)
               /\ pc' = "done"
               /\ collected' = r.collected
               /\ todo' = todo
          ELSE /\ collected' = r.collected
               /\ todo' = todo \ {p}
               /\ UNCHANGED <<ret, pc>>
  /\ UNCHANGED <<call, build, tool, spawned, result, prev>>

\* return collected, nil
Return ==
  /\ pc = "range"
  /\ todo = {}
  /\ ret' = ReturnCollected(collected)
  /\ pc' = "done"
  /\ UNCHANGED <<call, build, tool, spawned, result, todo, collected, prev>>

\* The caller invokes Run again; the driver holds no state between calls.
Again ==
  /\ pc = "done"
  /\ call = 1
  /\ call' = 2
  /\ prev' = ret
  /\ pc' = "start"
  /\ spawned' = <<>>
  /\ result' = <<>>
  /\ todo' = {}
  /\ collected' = <<>>
  /\ ret' = NoReturn
  /\ UNCHANGED <<build, tool>>

\* The second invocation meets the same build outcome and tool behaviour.
BuildAgain ==
  /\ pc = "start"
  /\ call = 2
  /\ Make(build)

ExecToolAgain ==
  /\ pc = "built"
  /\ call = 2
  /\ Exec(tool)

Next == Build \/ ExecTool \/ Decode \/ RangePkg \/ Return

Spec == Init /\ [][Next]_vars

\* Run invoked twice on the same directory with the same external behaviour.
NextTwice == Next \/ Again \/ BuildAgain \/ ExecToolAgain

SpecTwice == Init /\ [][NextTwice]_vars

\* ------------------------------------------------- what the claims speak of
\* The (filename, line) pair each well-formed sample position stands for;
\* the malformed samples are outside its domain.
KeyOf ==
  (PosnA :> [Filename |-> XGo, Line |-> 10])
  @@ (PosnA2 :> [Filename |-> XGo, Line |-> 10])
  @@ (PosnB :> [Filename |-> YGo, Line |-> 10])
  @@ (PosnZero :> [Filename |-> XGo, Line |-> 0])
  @@ (PosnNeg :> [Filename |-> XGo, Line |-> 0 - 3])
\* The samples that do not split into three segments, and the one whose line
\* segment is no integer.
BadParts == {PosnTwo, PosnFour}
BadLine == {PosnAbc}

\* Run has returned, and the tool's output was decoded as a payload.
Done == pc = "done"
Decoded ==
  /\ build.err = NoError
  /\ tool.err = NoError
  /\ tool.out.kind = "json"
Payload == tool.out.doc
Succeeded == Done /\ ret.err = NilErr /\ ~ret.m.nil

\* The package entries with and without the key, and the diagnostics as
\* (package, index) occurrences.
Keyed == {p \in DOMAIN Payload : AnalyzerKey \in DOMAIN Payload[p]}
Missing == DOMAIN Payload \ Keyed
Occ == UNION {{<<p, i>> : i \in 1..Len(Payload[p][AnalyzerKey])} : p \in Keyed}
At(o) == Payload[o[1]][AnalyzerKey][o[2]]
WellPosed(o) == At(o).Posn \in DOMAIN KeyOf
SamePair(o1, o2) ==
  /\ o1 # o2
  /\ WellPosed(o1)
  /\ WellPosed(o2)
  /\ KeyOf[At(o1).Posn] = KeyOf[At(o2).Posn]
Collides == \E o1, o2 \in Occ : SamePair(o1, o2)
AllWellPosed == \A o \in Occ : WellPosed(o)
WellFormed == Missing = {} /\ AllWellPosed

\* C1: for a well-formed tool output in which no two diagnostics share a
\* (filename, line) pair, Run returns success with a mapping whose keys are
\* exactly the pairs of the diagnostics of all packages, each mapped to its
\* diagnostic's message, whatever order the packages were ranged over.
C1_ExactMapping ==
  (Done /\ Decoded /\ WellFormed /\ ~Collides) =>
     /\ ret.err = NilErr
     /\ ~ret.m.nil
     /\ DOMAIN ret.m.m = {KeyOf[At(o).Posn] : o \in Occ}
     /\ \A o \in Occ : ret.m.m[KeyOf[At(o).Posn]] = At(o).Message

C1_Witness ==
  /\ Succeeded
  /\ Decoded
  /\ Cardinality(Keyed) = 2
  /\ \A p \in Keyed : Len(Payload[p][AnalyzerKey]) >= 1
  /\ Cardinality(DOMAIN ret.m.m) = 3

\* C5: whenever Run returns a failure the returned mapping is nil, also when
\* diagnostics had already been inserted; whenever it returns a mapping the
\* failure is nil.
C5_NoPartialResults ==
  Done =>
     /\ ret.err # NilErr => ret.m.nil /\ ret.m.m = <<>>
     /\ ~ret.m.nil => ret.err = NilErr

C5_Witness ==
  /\ Done
  /\ ret.err # NilErr
  /\ ret.m.nil
  /\ collected # <<>>

\* C7: the processes Run has spawned are a prefix of build, tool: the build
\* comes first and once, the tool at most once and only after a build that
\* succeeded; a failed build returns BuildFailure with make's error and
\* output, and neither runs the tool nor decodes anything.
C7_BuildThenTool ==
  /\ spawned \in {<<>>, <<"build">>, <<"build", "tool">>}
  /\ pc # "start" => Len(spawned) >= 1
  /\ Len(spawned) = 2 => build.err = NoError
  /\ (Done /\ build.err # NoError) =>
        /\ spawned = <<"build">>
        /\ tool = NoOutcome
        /\ result = <<>>
        /\ ret.m.nil
        /\ ret.err.kind = "BuildFailure"
        /\ ret.err.wrapped = build.err
        /\ ret.err.out = build.out

C7_Witness ==
  /\ Done
  /\ build.err = "exit status 2"
  /\ ret.err.kind = "BuildFailure"

\* C8: when the tool exits non-zero or cannot be started, Run returns
\* InvocationFailure with the process error and the captured output, and it
\* returns no mapping even when that output is a well-formed payload.
C8_InvocationFailure ==
  (Done /\ build.err = NoError /\ tool.err # NoError) =>
     /\ ret.m.nil
     /\ ret.err.kind = "InvocationFailure"
     /\ ret.err.wrapped = tool.err
     /\ ret.err.out = tool.out
     /\ result = <<>>
     /\ collected = <<>>

C8_Witness ==
  /\ Done
  /\ tool.err = "exit status 1"
  /\ tool.out.kind = "json"
  /\ Payload # <<>>
  /\ WellFormed
  /\ ret.err.kind = "InvocationFailure"

\* C2 as claimed: for every payload in which two diagnostics share a
\* (filename, line) pair, Run fails with DuplicatePositionFailure naming two
\* colliding messages, and returns no mapping.
C2_AlwaysDuplicateFailure ==
  (Done /\ Decoded /\ Collides) =>
     /\ ret.m.nil
     /\ ret.err.kind = "DuplicatePositionFailure"
     /\ \E o1, o2 \in Occ :
          SamePair(o1, o2) /\ ret.err.msgs = <<At(o1).Message, At(o2).Message>>

\* C2: for every payload in which two diagnostics share a (filename, line)
\* pair, in one package or in two, with equal or different columns, Run
\* fails and returns no mapping; when the payload has no other violation
\* (every entry has the key, every posn is well-formed) the failure is
\* DuplicatePositionFailure naming the stored and the new message of two
\* diagnostics that share a pair.
C2_DuplicateRejected ==
  (Done /\ Decoded /\ Collides) =>
     /\ ret.m.nil
     /\ ret.err # NilErr
     /\ WellFormed =>
          /\ ret.err.kind = "DuplicatePositionFailure"
          /\ \E o1, o2 \in Occ :
               /\ SamePair(o1, o2)
               /\ ret.err.msgs = <<At(o1).Message, At(o2).Message>>
               /\ KeyOf[At(o1).Posn] \in DOMAIN collected
               /\ collected[KeyOf[At(o1).Posn]] = At(o1).Message

C2_Witness ==
  /\ Done
  /\ Decoded
  /\ WellFormed
  /\ \E o1, o2 \in Occ :
       SamePair(o1, o2) /\ o1[1] # o2[1] /\ At(o1).Posn # At(o2).Posn
  /\ ret.err.kind = "DuplicatePositionFailure"
  /\ ret.err.msgs = <<"m2", "m1">>

\* C3 as claimed: for every payload with a package entry that lacks the
\* "nilaway" key, Run fails with SchemaFailure carrying such an entry.
C3_AlwaysSchemaFailure ==
  (Done /\ Decoded /\ Missing # {}) =>
     /\ ret.m.nil
     /\ ret.err.kind = "SchemaFailure"
     /\ \E p \in Missing : ret.err.entry = Payload[p]

\* C3: a payload with a package entry that lacks the "nilaway" key always
\* makes Run fail with no mapping, never counting the entry as empty; the
\* failure is SchemaFailure carrying such an entry when the diagnostics of
\* the other entries are well-formed and share no pair. An entry holding
\* the key with an empty sequence adds no key and no failure.
C3_MissingKeyRejected ==
  /\ (Done /\ Decoded /\ Missing # {}) =>
        /\ ret.m.nil
        /\ ret.err # NilErr
        /\ (AllWellPosed /\ ~Collides) =>
             /\ ret.err.kind = "SchemaFailure"
             /\ \E p \in Missing : ret.err.entry = Payload[p]
  /\ (Done /\ Decoded /\ Missing = {} /\ Occ = {}) =>
        /\ ret.err = NilErr
        /\ ~ret.m.nil
        /\ ret.m.m = <<>>

C3_Witness ==
  /\ Done
  /\ Decoded
  /\ Missing # {}
  /\ Occ # {}
  /\ collected # <<>>
  /\ ret.err.kind = "SchemaFailure"
  /\ ret.err.entry = MissingEntry

\* A diagnostic whose posn does not split into three segments or whose line
\* segment is no integer.
Malformed == \E o \in Occ : ~WellPosed(o)

\* C4 as claimed: for every payload holding a diagnostic whose posn does not
\* split into three segments or whose line segment is no integer, Run fails
\* with MalformedPositionFailure and returns no mapping.
C4_AlwaysMalformedFailure ==
  (Done /\ Decoded /\ Malformed) =>
     /\ ret.m.nil
     /\ ret.err.kind = "MalformedPositionFailure"

\* C4: a diagnostic whose posn does not split on ':' into exactly three
\* segments, or whose second segment is no base-10 integer, always makes Run
\* fail with no mapping; the failure is MalformedPositionFailure, carrying
\* the diagnostic or the segment and the parse error, when every package
\* entry has the key and no two diagnostics share a pair.
C4_MalformedRejected ==
  (Done /\ Decoded /\ Malformed) =>
     /\ ret.m.nil
     /\ ret.err # NilErr
     /\ (Missing = {} /\ ~Collides) =>
          /\ ret.err.kind = "MalformedPositionFailure"
          /\ \/ \E o \in Occ : At(o).Posn \in BadParts /\ ret.err.diag = At(o)
             \/ /\ \E o \in Occ : At(o).Posn \in BadLine
                /\ ret.err.num = <<"a", "b", "c">>
                /\ ret.err.wrapped = "invalid syntax"

C4_Witness ==
  /\ Done
  /\ Decoded
  /\ Missing = {}
  /\ ~Collides
  /\ collected # <<>>
  /\ \E o \in Occ : At(o).Posn = PosnFour
  /\ ret.err.kind = "MalformedPositionFailure"
  /\ ret.err.diag.Posn = PosnFour

\* C6: two executions of Run with the same build outcome, exit status and
\* captured output return the same mapping or the same failure.
C6_SameResultOrFailure ==
  (Done /\ call = 2) => ret = prev

\* C9 as claimed: when the output cannot be decoded, Run returns a
\* DecodeFailure that wraps the decode error and includes the captured bytes.
C9_DecodeFailureWithBytes ==
  (Done /\ build.err = NoError /\ tool.err = NoError /\ tool.out.kind # "json") =>
     /\ ret.err.kind = "DecodeFailure"
     /\ ret.err.wrapped # NoError
     /\ ret.err.out = tool.out

\* C9: when the captured output cannot be decoded as package -> analyzer
\* name -> diagnostics, Run returns no mapping and a DecodeFailure that wraps
\* the decode error; the failure does not include the captured bytes.
C9_DecodeFailure ==
  (Done /\ build.err = NoError /\ tool.err = NoError /\ tool.out.kind # "json") =>
     /\ ret.m.nil
     /\ ret.err.kind = "DecodeFailure"
     /\ ret.err.out = NoOut
     /\ tool.out.kind = "text" =>
          ret.err.wrapped = "invalid character looking for beginning of value"
     /\ tool.out.kind = "jsonWrongShape" =>
          ret.err.wrapped = "json: cannot unmarshal array into Go value"

C9_Witness ==
  /\ Done
  /\ tool.err = NoError
  /\ tool.out = JsonWrongShape
  /\ ret.err.kind = "DecodeFailure"

\* C10 as claimed: every Position key of a returned mapping has line >= 1.
C10_LinesArePositive ==
  Succeeded => \A pos \in DOMAIN ret.m.m : pos.Line >= 1

\* C10: every Position key of a returned mapping has the line its
\* diagnostic's line segment parses to, whatever its sign: posn x.go:0:1
\* gives the key (x.go, 0) and x.go:-3:1 the key (x.go, -3), and a key with
\* line < 1 comes from such a diagnostic only.
C10_LinesAsParsed ==
  (Succeeded /\ Decoded) =>
     /\ \A o \in Occ :
          /\ At(o).Posn = PosnZero =>
               /\ Position(XGo, 0) \in DOMAIN ret.m.m
               /\ ret.m.m[Position(XGo, 0)] = At(o).Message
          /\ At(o).Posn = PosnNeg =>
               /\ Position(XGo, 0 - 3) \in DOMAIN ret.m.m
               /\ ret.m.m[Position(XGo, 0 - 3)] = At(o).Message
     /\ \A pos \in DOMAIN ret.m.m :
          pos.Line < 1 =>
            \E o \in Occ : At(o).Posn \in {PosnZero, PosnNeg} /\ KeyOf[At(o).Posn] = pos

C10_Witness ==
  /\ Succeeded
  /\ Decoded
  /\ \E o \in Occ : At(o).Posn = PosnZero
  /\ \E o \in Occ : At(o).Posn = PosnNeg
  /\ \E pos \in DOMAIN ret.m.m : pos.Line < 0

====
